---------------------------- MODULE Spec2Model ----------------------------
(***************************************************************************)
(* Model of TwoDAlphabet/utils/make_pseudo.py (class PseudoData): the      *)
(* constructor's ledger selection and checks, the histogram arithmetic     *)
(* (Multiply, Add), the transfer chain, the Asimov / PDF / CDF builders    *)
(* and the inverse-CDF toy sampler.                                        *)
(*                                                                         *)
(* A histogram (TH2) is a record [nx, ny, xe, ye, c]: nx, ny are the bin   *)
(* counts, xe, ye the bin edges of the two axes (integers, in half units   *)
(* so that bin centres are integers) and c the bin contents over           *)
(* (0..nx+1) x (0..ny+1): index 0 is ROOT's underflow bin, nx+1 / ny+1 the *)
(* overflow bin.  A raised exception is the record [err |-> name].         *)
(***************************************************************************)
EXTENDS Integers, Sequences, FiniteSets, TLC

(***************************************************************************)
(* Bounds of the model.                                                    *)
(***************************************************************************)
MaxVal == 2
MaxRows == 2
MaxRegions == 3
MaxEvents == 3
MaxBins == 4

Vals == -1 .. MaxVal
FlowVals == {-1, 0, 1}
Dims == {<<1, 1>>, <<2, 1>>, <<1, 2>>}

(***************************************************************************)
(* Histograms.                                                             *)
(***************************************************************************)
Bins(nx, ny) == (0 .. nx + 1) \X (0 .. ny + 1)
InRange(nx, ny) == (1 .. nx) \X (1 .. ny)

\* Python's None.
None == [none |-> TRUE]

\* The outcome of a call: the exception raised, or the value returned.
Raise(e) == [err |-> e]
Ok(v) == [val |-> v]
IsErr(x) == "err" \in DOMAIN x

UniformAxis(n) == [k \in 1 .. n + 1 |-> 4 * (k - 1)]
AxisPool(n) == IF n = 1 THEN {<<0, 4>>, <<2, 6>>} ELSE {<<0, 4, 8>>, <<0, 2, 8>>}

\* A histogram with in-range contents inr and the value fl in every
\* underflow and overflow bin.
MkHist(nx, ny, xe, ye, inr, fl) ==
  [nx |-> nx, ny |-> ny, xe |-> xe, ye |-> ye,
   c |-> [b \in Bins(nx, ny) |-> IF b \in InRange(nx, ny) THEN inr[b] ELSE fl]]

HistPool ==
  UNION {{MkHist(d[1], d[2], xe, UniformAxis(d[2]), inr, fl) :
            xe \in AxisPool(d[1]), inr \in [InRange(d[1], d[2]) -> Vals], fl \in FlowVals} :
         d \in Dims}

\* TH1::Clone: an independent copy (the name is not modelled).
Clone(h) == h

\* TAxis::GetBinCenter: the middle of an in-range bin; for an underflow or
\* overflow index, the middle of the equal-width bin extrapolated from fXmin.
GetBinCenter(e, n, bin) ==
  IF bin < 1 \/ bin > n
    THEN LET w == (e[n + 1] - e[1]) \div n IN e[1] + (bin - 1) * w + (w \div 2)
    ELSE (e[bin] + e[bin + 1]) \div 2

\* TAxis::FindBin: 0 below the axis, n+1 at or above its upper edge,
\* otherwise the bin whose half-open interval [low, up) holds x.
FindBin(e, n, x) ==
  IF x < e[1] THEN 0
  ELSE IF x >= e[n + 1] THEN n + 1
  ELSE CHOOSE k \in 1 .. n : e[k] <= x /\ x < e[k + 1]

\* The bins visited by Multiply's double loop, in loop order:
\* range(0, NbinsX+1) x range(0, NbinsY+1).
RECURSIVE RangeSeq(_, _)
RangeSeq(lo, hi) == IF lo > hi THEN <<>> ELSE <<lo>> \o RangeSeq(lo + 1, hi)

RECURSIVE Pairs(_, _)
Pairs(is, js) ==
  IF is = <<>> THEN <<>>
  ELSE [k \in 1 .. Len(js) |-> <<Head(is), js[k]>>] \o Pairs(Tail(is), js)

MultiplyLoopBins(h) == Pairs(RangeSeq(0, h.nx), RangeSeq(0, h.ny))

\* Mutant of ClampNeg: the clamp forgotten.
ClampNeg_NoClamp(v) == v

\* The clamp of line 297-298: a negative h1 content counts as zero.
ClampNeg(v) == IF v < 0 THEN 0 ELSE v

\* One pass of the loop body (lines 296-304) for bin b.
MultiplyBin(fh, h1, h2, b) ==
  LET h1Val == ClampNeg(h1.c[b])
      xVal == GetBinCenter(h1.xe, h1.nx, b[1])
      yVal == GetBinCenter(h1.ye, h1.ny, b[2])
      ih2 == FindBin(h2.xe, h2.nx, xVal)
      jh2 == FindBin(h2.ye, h2.ny, yVal)
      h2Val == h2.c[<<ih2, jh2>>]
  IN [fh EXCEPT !.c[b] = h1Val * h2Val]

RECURSIVE MultiplyLoop(_, _, _, _)
MultiplyLoop(fh, h1, h2, bs) ==
  IF bs = <<>> THEN fh
  ELSE MultiplyLoop(MultiplyBin(fh, h1, h2, Head(bs)), h1, h2, Tail(bs))

\* PseudoData.Multiply: the assert on the bin counts, then the loop on a
\* clone of h1.
Multiply(h1, h2) ==
  IF <<h1.nx, h1.ny>> # <<h2.nx, h2.ny>> THEN Raise("AssertionError")
  ELSE MultiplyLoop(Clone(h1), h1, h2, MultiplyLoopBins(h1))

(***************************************************************************)
(* Strings and the ledger.  A string is a sequence of characters; region   *)
(* names and histogram names are built from the characters below.  A row   *)
(* of the ledger dataframe is a record [region, process_type, variation,   *)
(* source_histname].                                                       *)
(***************************************************************************)
CRloose == <<"C", "l">>
CRpass == <<"C", "p">>
SRloose == <<"S", "l">>
SRpass == <<"S", "p">>

LedgerRegions == <<CRloose, CRpass, SRpass>>
RequestNames == {SRloose, SRpass}
Kinds == <<<<"DATA", "nominal">>, <<"BKG", "nominal">>, <<"BKG", "up">>, <<"SIGNAL", "nominal">>>>
HistPrefixes == <<<<"h">>, <<"g">>>>

\* `t in s` on Python strings.
Contains(s, t) ==
  \E i \in 0 .. Len(s) - Len(t) : SubSeq(s, i + 1, i + Len(t)) = t

\* re.sub(find, repl, s) for a literal, non-empty pattern: every leftmost
\* non-overlapping occurrence replaced.
RECURSIVE StrReplace(_, _, _)
StrReplace(s, find, repl) ==
  IF Len(s) < Len(find) THEN s
  ELSE IF SubSeq(s, 1, Len(find)) = find
    THEN repl \o StrReplace(SubSeq(s, Len(find) + 1, Len(s)), find, repl)
    ELSE <<Head(s)>> \o StrReplace(Tail(s), find, repl)

MkRow(region, kind, prefix) ==
  [region |-> region, process_type |-> kind[1], variation |-> kind[2],
   source_histname |-> prefix \o region]

\* The rows a ledger may hold, in a fixed order: every region, kind and
\* histogram-name prefix.
RowList ==
  LET nk == Len(Kinds)
      np == Len(HistPrefixes)
  IN [i \in 1 .. Len(LedgerRegions) * nk * np |->
        MkRow(LedgerRegions[((i - 1) \div (nk * np)) + 1],
              Kinds[(((i - 1) \div np) % nk) + 1],
              HistPrefixes[((i - 1) % np) + 1])]

NonDecreasing(q) == \A i \in 1 .. Len(q) - 1 : q[i] <= q[i + 1]

\* The ledgers of 1..MaxRows rows (rows may repeat: two files may hold a
\* histogram of the same name for the same region).
Ledgers ==
  UNION {{[k \in 1 .. n |-> RowList[idx[k]]] :
            idx \in {q \in [1 .. n -> DOMAIN RowList] : NonDecreasing(q)}} :
         n \in 1 .. MaxRows}

\* The find-replace dictionaries, as the sequence of their items in iteration
\* order; <<>> is the empty dictionary.
FindReplaceMaps ==
  {<<>>,
   <<<<CRpass, SRpass>>>>,
   <<<<CRloose, SRloose>>, <<CRpass, SRpass>>>>,
   <<<<CRloose, SRpass>>, <<CRpass, SRpass>>>>}

\* The region lists: 0..3 names, the loose region before the pass region,
\* a name may repeat.
RegionLists ==
  UNION {{q \in [1 .. n -> RequestNames] :
            \A i \in 1 .. n - 1 : q[i] = SRpass => q[i + 1] = SRpass} : n \in 0 .. 3}

\* A transfer function equal to one in every bin.
UnitRpf == MkHist(1, 1, UniformAxis(1), UniformAxis(1), [b \in InRange(1, 1) |-> 1], 1)

\* The rpfs lists of the constructor: 0..3 transfer functions.
RpfLists == UNION {[1 .. n -> {UnitRpf}] : n \in 0 .. 3}

(***************************************************************************)
(* PseudoData.__init__ and its helpers.                                    *)
(***************************************************************************)
Unset == [unset |-> TRUE]

\* _select_nominal (lines 75-82).
SelectNominal(row, regs) ==
  IF row.region \notin regs THEN FALSE
  ELSE IF row.process_type = "DATA" THEN TRUE
  ELSE IF row.process_type = "BKG" THEN row.variation = "nominal"
  ELSE FALSE

\* select (lines 73-85): the ledger rows kept by _select_nominal.
Select(ledgerDf, regs) ==
  LET Keep(row) == SelectNominal(row, regs) IN SelectSeq(ledgerDf, Keep)

\* df.replace(find, replace, regex=True) (line 40) on the region and the
\* source_histname columns.
DfReplace(df, find, repl) ==
  [i \in 1 .. Len(df) |->
     [df[i] EXCEPT !.region = StrReplace(@, find, repl),
                   !.source_histname = StrReplace(@, find, repl)]]

\* The loop of lines 38-40 over findreplace.items().
RECURSIVE ReplaceAll(_, _)
ReplaceAll(df, items) ==
  IF items = <<>> THEN df
  ELSE ReplaceAll(DfReplace(df, Head(items)[1], Head(items)[2]), Tail(items))

KeysOf(items) == {items[i][1] : i \in 1 .. Len(items)}
SeqRange(q) == {q[i] : i \in 1 .. Len(q)}

RegionsOf(df) == {df[i].region : i \in 1 .. Len(df)}

\* Lines 43-45: the check that no find-replace is needed, run on self.df as
\* it is at that point of __init__.
CheckRegionsInHistnames(selfDf, regs) ==
  IF selfDf = Unset THEN Raise("AttributeError")
  ELSE IF \E i \in 1 .. Len(selfDf) :
            ~ \E k \in 1 .. Len(regs) : Contains(selfDf[i].source_histname, regs[k])
    THEN Raise("RegionNotFound")
  ELSE Ok(TRUE)

\* _getOutputHistNames (lines 87-95).
GetOutputHistNames(df) ==
  IF \E r \in RegionsOf(df) :
       Cardinality({df[i].source_histname : i \in {j \in 1 .. Len(df) : df[j].region = r}}) # 1
    THEN Raise("OneHistNamePerRegion")
  ELSE Ok([r \in RegionsOf(df) |->
             CHOOSE h \in {df[i].source_histname : i \in 1 .. Len(df)} :
               \E i \in 1 .. Len(df) : df[i].region = r /\ df[i].source_histname = h])

\* The rows of line 101: df.region.eq(region) & df.process_type.eq('DATA').
DataRows(df, r) ==
  LET IsData(row) == row.region = r /\ row.process_type = "DATA" IN SelectSeq(df, IsData)

\* TH1.Integral() of the data histogram stored under a name: the files are
\* not part of the program, every histogram name stands for a histogram whose
\* integral is the length of the name.
FileIntegral(hName) == Len(hName)

\* _getNevents (lines 97-112).
GetNevents(df) ==
  IF \E r \in RegionsOf(df) : Len(DataRows(df, r)) # 1
    THEN Raise("AmbiguousData")
  ELSE Ok([r \in RegionsOf(df) |-> FileIntegral(DataRows(df, r)[1].source_histname)])

\* The dataframe built by lines 33-47, or the exception raised there.
BuildDf(ledgerDf, regs, fr) ==
  IF fr # <<>>
    THEN Ok(ReplaceAll(Select(ledgerDf, KeysOf(fr)), fr))
    ELSE LET chk == CheckRegionsInHistnames(Unset, regs)
         IN IF IsErr(chk) THEN chk ELSE Ok(Select(ledgerDf, SeqRange(regs)))

\* __init__ (lines 26-61): the object's fields, or the exception raised.
Construct(ledgerDf, regs, rp, fr) ==
  LET built == BuildDf(ledgerDf, regs, fr)
  IN IF IsErr(built) THEN built
     ELSE IF Len(regs) - Len(rp) # 1 THEN Raise("ChainLengthMismatch")
     ELSE LET df == built.val
              names == GetOutputHistNames(df)
              nEv == GetNevents(df)
          IN IF IsErr(names) THEN names
             ELSE IF IsErr(nEv) THEN nEv
             ELSE IF Len(df) = 0 THEN Raise("IndexError")
             ELSE [regions |-> regs, rpfs |-> rp, df |-> df,
                   outHistNames |-> names.val, nEvents |-> nEv.val]

(***************************************************************************)
(* The transfer chain: GetDataDrivenPrediction.                            *)
(***************************************************************************)
SRfail == <<"S", "f">>
ChainNames == {SRfail, SRloose, SRpass}

\* The histograms of the chain: one in-range bin, any content, and empty or
\* filled underflow / overflow bins; the transfer functions may also come
\* with another binning than the fail-region histogram.
PipeFlowVals == {0, 1}
PipePool ==
  {MkHist(1, 1, UniformAxis(1), UniformAxis(1), inr, fl) :
     inr \in [InRange(1, 1) -> Vals], fl \in PipeFlowVals}
OtherBinning == MkHist(2, 1, UniformAxis(2), UniformAxis(1), [b \in InRange(2, 1) |-> 1], 0)
RpfPool == PipePool \cup {OtherBinning}

\* list.index(x): the 0-based position of the first occurrence.
IndexOf(q, x) == (CHOOSE k \in 1 .. Len(q) : q[k] = x /\ \A j \in 1 .. k - 1 : q[j] # x) - 1

\* list[idx] for a 0-based idx >= -Len(q): a negative index counts from the end.
PyItem(q, idx) == IF idx < 0 THEN q[Len(q) + idx + 1] ELSE q[idx + 1]

\* dict[key] = value.
DictSet(d, key, value) ==
  [k \in DOMAIN d \cup {key} |-> IF k = key THEN value ELSE d[k]]

EmptyDict == [k \in {} |-> None]

\* Lines 182-184 at loop index i (0-based): the name of the region before
\* the first occurrence of the current region's name.
PreviousRegionName(regs, i) ==
  LET region == regs[i + 2]
      currentRegionIdx == IndexOf(regs, region)
      previousRegionIdx == currentRegionIdx - 1
  IN PyItem(regs, previousRegionIdx)

\* Mutant of TransferInput: every transfer starts from the seed.
TransferInput_Seed(regs, dd, seed, i) == Ok(seed)

\* Lines 188-191: the first operand of Multiply at loop index i.
TransferInput(regs, dd, seed, i) ==
  IF i = 0 THEN Ok(seed)
  ELSE IF PreviousRegionName(regs, i) \in DOMAIN dd THEN Ok(dd[PreviousRegionName(regs, i)])
  ELSE Raise("KeyError")

\* Mutant of ChainIter: the seed is stored too, under the fail region's name.
ChainIter_KeepSeed(regs, rp, dd, seed, i) ==
  LET input == TransferInput(regs, dd, seed, i)
  IN IF IsErr(input) THEN input
     ELSE LET transferN == Multiply(input.val, rp[i + 1])
          IN IF IsErr(transferN) THEN transferN
             ELSE Ok(DictSet(DictSet(dd, regs[1], seed), regs[i + 2], transferN))

\* The loop body (lines 181-194) at loop index i on the dictionary dd: the
\* updated dictionary, or the exception raised.
ChainIter(regs, rp, dd, seed, i) ==
  LET input == TransferInput(regs, dd, seed, i)
  IN IF IsErr(input) THEN input
     ELSE LET transferN == Multiply(input.val, rp[i + 1])
          IN IF IsErr(transferN) THEN transferN
             ELSE Ok(DictSet(dd, regs[i + 2], transferN))

RECURSIVE ChainLoop(_, _, _, _, _)
ChainLoop(regs, rp, dd, seed, i) ==
  IF i > Len(regs) - 2 THEN Ok(dd)
  ELSE LET step == ChainIter(regs, rp, dd, seed, i)
       IN IF IsErr(step) THEN step ELSE ChainLoop(regs, rp, step.val, seed, i + 1)

\* GetDataDrivenPrediction (lines 165-196): the returned dictionary, or the
\* exception raised.
GetDataDrivenPrediction(regs, rp, seed) ==
  IF Len(regs) - 1 < 1 THEN Raise("EmptyChain")
  ELSE ChainLoop(regs, rp, EmptyDict, seed, 0)

(***************************************************************************)
(* Histogram sums: GetData, GetBackgrounds, GetDataMinusBackgrounds and    *)
(* GetAsimov.                                                              *)
(***************************************************************************)
\* TH1::Reset: the same binning, every bin (underflow and overflow too) zero.
Reset(h) == [h EXCEPT !.c = [b \in DOMAIN h.c |-> 0]]

\* Lines 55-59: the template, an emptied clone of a source histogram.
TemplateOf(h) == Reset(Clone(h))

\* TH1::Add(h, c): this + c * h in every bin, underflow and overflow
\* included.  With a different number of bins ROOT reports an error, returns
\* false and leaves this as it was; no Python exception is raised.
HistAdd(this, h, c) ==
  IF <<this.nx, this.ny>> # <<h.nx, h.ny>> THEN this
  ELSE [this EXCEPT !.c = [b \in DOMAIN this.c |-> this.c[b] + c * h.c[b]]]

\* The data and background histograms stored in the files of a region; one
\* data histogram has another binning than the template.
DataPool ==
  {MkHist(1, 1, UniformAxis(1), UniformAxis(1), inr, fl) :
     inr \in [InRange(1, 1) -> 0 .. MaxVal], fl \in PipeFlowVals}
  \cup {OtherBinning}
BkgSourceLists == UNION {[1 .. n -> PipePool] : n \in 0 .. 2}

\* The transfer functions of the pipeline: empty underflow and overflow.
PipeRpfPool ==
  {MkHist(1, 1, UniformAxis(1), UniformAxis(1), inr, 0) : inr \in [InRange(1, 1) -> Vals]}

\* GetData (lines 114-128): a clone of the region's data histogram.
GetData(dataHist) == Clone(dataHist)

\* The loop of lines 142-147 over the region's BKG rows.
RECURSIVE AddAll(_, _)
AddAll(total, sources) ==
  IF sources = <<>> THEN total
  ELSE AddAll(HistAdd(total, Head(sources), 1), Tail(sources))

\* GetBackgrounds (lines 130-149).
GetBackgrounds(template, bkgSources) == AddAll(Clone(template), bkgSources)

\* GetDataMinusBackgrounds (lines 151-163).
GetDataMinusBackgrounds(template, dataHist, nominal) ==
  HistAdd(HistAdd(Clone(template), dataHist, 1), nominal, -1)

\* Mutant of GetAsimov: the nominal MC left out.
GetAsimov_NoMC(template, nominal, dd) == HistAdd(Clone(template), dd, 1)

\* GetAsimov (lines 198-214).
GetAsimov(template, nominal, dd) ==
  HistAdd(HistAdd(Clone(template), nominal, 1), dd, 1)

(***************************************************************************)
(* The sampler: GetPDF, GetCDF, _FindPDFintersection, _GlobalBinTo2D and   *)
(* GeneratePseudoData.  A PDF is a histogram with a field den: the content *)
(* of bin b is the rational c[b] / den, den > 0.  A CDF (TH1F) is a record *)
(* [n, c, r, den]: the content of bin k in 0..n+1 is c[k] / den plus the   *)
(* accumulated single-precision rounding of r[k] float spacings.           *)
(***************************************************************************)
RECURSIVE SumOver(_, _)
SumOver(f, S) ==
  IF S = {} THEN 0
  ELSE LET x == CHOOSE y \in S : TRUE IN f[x] + SumOver(f, S \ {x})

\* TH2::Integral(binx1, binx2, biny1, biny2): the sum of the contents of
\* the bins binx1..binx2 x biny1..biny2, both ends included.
Integral(h, binx1, binx2, biny1, biny2) ==
  SumOver(h.c, (binx1 .. binx2) \X (biny1 .. biny2))

Abs(x) == IF x < 0 THEN -x ELSE x
Sgn(x) == IF x < 0 THEN -1 ELSE 1

\* The bin range of line 228: 1 .. GetNbinsX()+1, 1 .. GetNbinsY()+1.
PDFIntegralBins(h) == <<1, h.nx + 1, 1, h.ny + 1>>

\* GetPDF (lines 216-231): 1./nEventsAsimov raises ZeroDivisionError for a
\* zero integral; Scale multiplies every bin, underflow and overflow too.
GetPDF(asim) ==
  LET r == PDFIntegralBins(asim)
      nEventsAsimov == Integral(asim, r[1], r[2], r[3], r[4])
  IN IF nEventsAsimov = 0 THEN Raise("ZeroDivisionError")
     ELSE [nx |-> asim.nx, ny |-> asim.ny, xe |-> asim.xe, ye |-> asim.ye,
           c |-> [b \in DOMAIN asim.c |-> Sgn(nEventsAsimov) * asim.c[b]],
           den |-> Abs(nEventsAsimov)]

\* The flattened index cumulativeBin of bin (i, j) in the loops of lines
\* 239-241: i outer, j inner.
CumulativeBin(ny, i, j) == (i - 1) * ny + j

RECURSIVE IsPowerOfTwo(_)
IsPowerOfTwo(n) == n = 1 \/ (n > 1 /\ n % 2 = 0 /\ IsPowerOfTwo(n \div 2))

\* TH1F::SetBinContent stores a single-precision float.  The rounding of
\* the k-th stored sum, in units of one float spacing: none when the PDF
\* content added is 0.0 or when every content is a small dyadic fraction
\* (den a power of two), otherwise down, exact or up.
RoundingChoices(pdf) ==
  {errs \in [1 .. pdf.nx * pdf.ny -> {-1, 0, 1}] :
     \A i \in 1 .. pdf.nx : \A j \in 1 .. pdf.ny :
       (pdf.c[<<i, j>>] = 0 \/ IsPowerOfTwo(pdf.den)) => errs[CumulativeBin(pdf.ny, i, j)] = 0}

\* The running sum of lines 238-243: CDF bin k holds the PDF content of its
\* bin plus CDF bin k-1 (bin 0, the underflow bin of the TH1F, holds 0).
\* The stored content of bin k is c[k] / den plus r[k] float spacings.
RECURSIVE CumulativeLoop(_, _, _, _)
CumulativeLoop(cdf, pdf, errs, bs) ==
  IF bs = <<>> THEN cdf
  ELSE LET k == CumulativeBin(pdf.ny, Head(bs)[1], Head(bs)[2])
       IN CumulativeLoop([cdf EXCEPT !.c[k] = pdf.c[Head(bs)] + cdf.c[k - 1],
                                     !.r[k] = cdf.r[k - 1] + errs[k]],
                         pdf, errs, Tail(bs))

\* The order of two contents <<c, r>> of one CDF: a float spacing is far
\* smaller than 1 / den.
ValLess(a, b) == a[1] < b[1] \/ (a[1] = b[1] /\ a[2] < b[2])
CdfVal(cdf, k) == <<cdf.c[k], cdf.r[k]>>

\* TH1::GetMaximum of a CDF: the largest content of the bins 1..n.
CdfMaximum(cdf) ==
  CHOOSE m \in {CdfVal(cdf, k) : k \in 1 .. cdf.n} :
    \A k \in 1 .. cdf.n : ~ValLess(m, CdfVal(cdf, k))

\* The bins visited by GetCDF's double loop (lines 239-240), in loop order.
CDFLoopBins(pdf) == Pairs(RangeSeq(1, pdf.nx), RangeSeq(1, pdf.ny))

\* Lines 233-243 of GetCDF under the roundings errs: the filled CDF.
CumulativeCDF(pdf, errs) ==
  LET n == pdf.nx * pdf.ny
      empty == [n |-> n, c |-> [k \in 0 .. n + 1 |-> 0],
                r |-> [k \in 0 .. n + 1 |-> 0], den |-> pdf.den]
  IN CumulativeLoop(empty, pdf, errs, CDFLoopBins(pdf))

\* GetCDF (lines 233-247); line 245 compares the maximum with
\* 1.0 = <<den, 0>>.
GetCDF(pdf, errs) ==
  LET cdf == CumulativeCDF(pdf, errs)
  IN IF ValLess(<<cdf.den, 0>>, CdfMaximum(cdf)) THEN Raise("CdfOverflow") ELSE cdf

\* random.uniform(0, CDF.GetMaximum()): any value between 0 and the maximum,
\* both ends included.  A draw is <<u, r>>: u / (2 * den) plus r float
\* spacings; the set holds the maximum, every CDF content in the interval
\* and a value between any two of them.
UniformDraws(cdf) ==
  LET m == CdfMaximum(cdf)
      top == <<2 * m[1], m[2]>>
      lo == IF ValLess(top, <<0, 0>>) THEN top ELSE <<0, 0>>
      hi == IF ValLess(top, <<0, 0>>) THEN <<0, 0>> ELSE top
      cands == {<<u, 0>> : u \in lo[1] .. hi[1]}
                 \cup {<<2 * cdf.c[k], cdf.r[k]>> : k \in 1 .. cdf.n}
                 \cup {top}
  IN {u \in cands : ~ValLess(u, lo) /\ ~ValLess(hi, u)}

\* Line 254, PDFval > rand, for the content of CDF bin i.
Exceeds(cdf, i, rnd) == ValLess(rnd, <<2 * cdf.c[i], cdf.r[i]>>)

\* Mutant of FindPDFintersection: the first bin not below the draw.
FindPDFintersection_NotBelow(rnd, cdf) ==
  IF \E i \in 1 .. cdf.n : ~ValLess(<<2 * cdf.c[i], cdf.r[i]>>, rnd)
    THEN Ok(CHOOSE i \in 1 .. cdf.n :
              /\ ~ValLess(<<2 * cdf.c[i], cdf.r[i]>>, rnd)
              /\ \A j \in 1 .. i - 1 : ValLess(<<2 * cdf.c[j], cdf.r[j]>>, rnd))
    ELSE Raise("NoIntersection")

\* Mutant of FindPDFintersection: the last bin above the draw.
FindPDFintersection_Last(rnd, cdf) ==
  IF \E i \in 1 .. cdf.n : Exceeds(cdf, i, rnd)
    THEN Ok(CHOOSE i \in 1 .. cdf.n :
              /\ Exceeds(cdf, i, rnd)
              /\ \A j \in i + 1 .. cdf.n : ~Exceeds(cdf, j, rnd))
    ELSE Raise("NoIntersection")

\* _FindPDFintersection (lines 249-258).
FindPDFintersection(rnd, cdf) ==
  IF \E i \in 1 .. cdf.n : Exceeds(cdf, i, rnd)
    THEN Ok(CHOOSE i \in 1 .. cdf.n :
              /\ Exceeds(cdf, i, rnd)
              /\ \A j \in 1 .. i - 1 : ~Exceeds(cdf, j, rnd))
    ELSE Raise("NoIntersection")

\* Mutant of GlobalBinTo2D: the division and the remainder by NX.
GlobalBinTo2D_ByNX(pdf, globalBin) ==
  LET g == globalBin - 1
  IN <<(g \div pdf.nx) + 1, (g % pdf.nx) + 1>>

\* _GlobalBinTo2D (lines 260-270).
GlobalBinTo2D(pdf, globalBin) ==
  LET g == globalBin - 1
      localX == (g \div pdf.ny) + 1
      localY == (g % pdf.ny) + 1
  IN <<localX, localY>>

\* Mutant of DataIntegral: the overflow bins counted too.
DataIntegral_WithOverflow(h) == Integral(h, 1, h.nx + 1, 1, h.ny + 1)

\* Line 109, dataHist.Integral(): the sum of the in-range bins, stored as
\* self.nEvents[region].
DataIntegral(h) == Integral(h, 1, h.nx, 1, h.ny)

\* The nEvents argument of GeneratePseudoData for a region: the caller
\* passes the region's entry of self.nEvents.
NEventsArgument(storedNEvents) == storedNEvents

\* Mutant of ToyFill: the bin set to one instead of incremented.
ToyFill_SetOne(toyHist, b) == [toyHist EXCEPT !.c[b] = 1]

\* Line 282: toy.SetBinContent(nx, ny, toy.GetBinContent(nx, ny) + 1).
ToyFill(toyHist, b) == [toyHist EXCEPT !.c[b] = toyHist.c[b] + 1]

(***************************************************************************)
(* The same operations on objects in memory.  Every method builds its      *)
(* result by cloning one histogram (or, in GetCDF, constructing one) and   *)
(* then writing to the new object; heap holds the objects, a reference is  *)
(* a position in it, and an operation yields [heap, ref] or an exception.  *)
(***************************************************************************)
\* Mutant of HClone: no copy is made, the result is the object itself.
HClone_Alias(hp, id) == [heap |-> hp, ref |-> id]

\* TH1::Clone (lines 57, 126, 137, 160, 210, 224, 273, 292): a new object
\* with the contents of the old one.
HClone(hp, id) == [heap |-> Append(hp, Clone(hp[id])), ref |-> Len(hp) + 1]

\* A write to the object id.
HWrite(hp, id, v) == [hp EXCEPT ![id] = v]

\* GetData (line 126).
HGetData(hp, fileData) == HClone(hp, fileData)

\* GetBackgrounds (lines 137-149) for one BKG row.
HGetBackgrounds(hp, template, fileBkg) ==
  LET t == HClone(hp, template)
  IN [heap |-> HWrite(t.heap, t.ref, AddAll(t.heap[t.ref], <<t.heap[fileBkg]>>)),
      ref |-> t.ref]

\* GetDataMinusBackgrounds (lines 160-163).
HGetDataMinusBackgrounds(hp, template, dataRef, mc) ==
  LET t == HClone(hp, template)
  IN [heap |-> HWrite(t.heap, t.ref,
                      HistAdd(HistAdd(t.heap[t.ref], t.heap[dataRef], 1), t.heap[mc], -1)),
      ref |-> t.ref]

\* Multiply (lines 288-306).
HMultiply(hp, h1, h2) ==
  IF <<hp[h1].nx, hp[h1].ny>> # <<hp[h2].nx, hp[h2].ny>> THEN Raise("AssertionError")
  ELSE LET f == HClone(hp, h1)
       IN [heap |-> HWrite(f.heap, f.ref,
                           MultiplyLoop(f.heap[f.ref], f.heap[h1], f.heap[h2],
                                        MultiplyLoopBins(f.heap[h1]))),
           ref |-> f.ref]

\* GetAsimov (lines 210-214).
HGetAsimov(hp, template, mc, dd) ==
  LET t == HClone(hp, template)
  IN [heap |-> HWrite(t.heap, t.ref,
                      HistAdd(HistAdd(t.heap[t.ref], t.heap[mc], 1), t.heap[dd], 1)),
      ref |-> t.ref]

\* GetPDF (lines 224-231).
HGetPDF(hp, asim) ==
  LET a == HClone(hp, asim)
      scaled == GetPDF(a.heap[a.ref])
  IN IF IsErr(scaled) THEN scaled
     ELSE [heap |-> HWrite(a.heap, a.ref, scaled), ref |-> a.ref]

\* GetCDF (lines 233-247): the CDF is a newly constructed TH1F.
HGetCDF(hp, pdf, errs) ==
  LET cdf == GetCDF(hp[pdf], errs)
  IN IF IsErr(cdf) THEN cdf
     ELSE [heap |-> Append(hp, cdf), ref |-> Len(hp) + 1]

\* Line 273 of GeneratePseudoData.
HNewToy(hp, template) == HClone(hp, template)

\* Lines 277-282 of GeneratePseudoData for the draw rnd.
HDraw(hp, toyRef, pdf, cdf, rnd) ==
  LET globalBin == FindPDFintersection(rnd, hp[cdf])
  IN IF IsErr(globalBin) THEN globalBin
     ELSE [heap |-> HWrite(hp, toyRef,
                           ToyFill(hp[toyRef], GlobalBinTo2D(hp[pdf], globalBin.val))),
           ref |-> toyRef]

(***************************************************************************)
(* State.                                                                  *)
(***************************************************************************)
VARIABLES
  mulH1, mulH2,   \* the operands h1, h2 of a call of Multiply
  finalHist,      \* its result: a histogram, an exception, or "none" before the call
  mulPc,          \* "call" before the call, "done" after it
  ledger,         \* twoD.ledger.df: the rows of the ledger
  regions,        \* the constructor's argument regions
  rpfs,           \* the constructor's argument rpfs, a list of histograms
  findreplace,    \* the constructor's argument findreplace
  self,           \* the constructed object, the exception raised, or None
  ctorPc,         \* "call" before __init__, "done" after it
  dataMinusBkgFail, \* the argument of GetDataDrivenPrediction
  dataDriven,     \* its local dictionary dataDriven
  loopI,          \* its loop index i
  chainResult,    \* what it returned or raised, None before
  chainPc,        \* "call", "loop" (at the head of the for loop), "done"
  template_hist,  \* self.template_hist
  regionIdx,      \* the caller's loop over self.regions: the current position
  data,           \* the fail region's data histogram (GetData)
  nominalMC,      \* the current region's summed nominal backgrounds
  asimov,         \* the current region's Asimov histogram
  pipePc,         \* the next call: "bkg", "data", "dmb", "chain", "asimov", "next"
  PDF,            \* what GetPDF returned or raised
  CDF,            \* what GetCDF returned or raised
  nEvents,        \* the nEvents argument of GeneratePseudoData
  toy,            \* its local histogram toy
  drawI,          \* its loop index i
  rand,           \* its last draw <<u, r>>: u / (2 * den) plus r float spacings
  sampleResult,   \* what it returned or raised, None before
  samplePc,       \* "pdf", "cdf", "generate", "draw", "done", "failed"
  gridNX, gridNY, \* GetCDF's locals nx, ny
  binI, binJ,     \* its loop indices i, j
  cumulativeBin,  \* its counter cumulativeBin
  flatPc,         \* "start" before its loops, "loop" inside them, "done" after
  heap,           \* the ROOT objects in memory, by reference 1 .. Len(heap)
  refs,           \* the caller's names for them: a reference each, 0 when unset
  heapDrawI,      \* GeneratePseudoData's loop index i
  heapPc          \* "run", "draw" (inside GeneratePseudoData), "failed"

mulVars == <<mulH1, mulH2, finalHist, mulPc>>
ctorVars == <<ledger, regions, rpfs, findreplace, self, ctorPc>>
chainVars == <<dataMinusBkgFail, dataDriven, loopI, chainResult, chainPc>>
pipeVars == <<template_hist, regionIdx, data, nominalMC, asimov, pipePc>>
sampleVars == <<PDF, CDF, nEvents, toy, drawI, rand, sampleResult, samplePc>>
flatVars == <<gridNX, gridNY, binI, binJ, cumulativeBin, flatPc>>
heapVars == <<heap, refs, heapDrawI, heapPc>>
vars == <<mulVars, ctorVars, chainVars, pipeVars, sampleVars, flatVars, heapVars>>


(***************************************************************************)
(* Specification SpecMultiply: one call of Multiply on two histograms.     *)
(***************************************************************************)
MulIdle ==
  /\ mulH1 = None
  /\ mulH2 = None
  /\ finalHist = None
  /\ mulPc = "idle"

CtorIdle ==
  /\ ledger = <<>>
  /\ regions = <<>>
  /\ rpfs = <<>>
  /\ findreplace = <<>>
  /\ self = None
  /\ ctorPc = "idle"

ChainIdle ==
  /\ dataMinusBkgFail = None
  /\ dataDriven = EmptyDict
  /\ loopI = 0
  /\ chainResult = None
  /\ chainPc = "idle"

PipeIdle ==
  /\ template_hist = None
  /\ regionIdx = 0
  /\ data = None
  /\ nominalMC = None
  /\ asimov = None
  /\ pipePc = "idle"

HeapIdle ==
  /\ heap = <<>>
  /\ refs = None
  /\ heapDrawI = 0
  /\ heapPc = "idle"

FlatIdle ==
  /\ gridNX = 0
  /\ gridNY = 0
  /\ binI = 0
  /\ binJ = 0
  /\ cumulativeBin = 0
  /\ flatPc = "idle"

SampleIdle ==
  /\ PDF = None
  /\ CDF = None
  /\ nEvents = 0
  /\ toy = None
  /\ drawI = 0
  /\ rand = 0
  /\ sampleResult = None
  /\ samplePc = "idle"

InitMultiply ==
  /\ mulH1 \in HistPool
  /\ mulH2 \in HistPool
  /\ finalHist = None
  /\ mulPc = "call"
  /\ CtorIdle
  /\ ChainIdle
  /\ PipeIdle
  /\ SampleIdle
  /\ FlatIdle
  /\ HeapIdle

CallMultiply ==
  /\ mulPc = "call"
  /\ finalHist' = Multiply(mulH1, mulH2)
  /\ mulPc' = "done"
  /\ UNCHANGED <<mulH1, mulH2, ctorVars, chainVars, pipeVars, sampleVars, flatVars, heapVars>>

NextMultiply == CallMultiply

SpecMultiply == InitMultiply /\ [][NextMultiply]_vars

(***************************************************************************)
(* Specification SpecCtor: PseudoData(twoD, regions, rpfs, findreplace) on *)
(* a ledger.                                                               *)
(***************************************************************************)
InitCtor ==
  /\ ledger \in Ledgers
  /\ regions \in RegionLists
  /\ rpfs \in RpfLists
  /\ findreplace \in FindReplaceMaps
  /\ self = None
  /\ ctorPc = "call"
  /\ MulIdle
  /\ ChainIdle
  /\ PipeIdle
  /\ SampleIdle
  /\ FlatIdle
  /\ HeapIdle

CallInit ==
  /\ ctorPc = "call"
  /\ self' = Construct(ledger, regions, rpfs, findreplace)
  /\ ctorPc' = "done"
  /\ UNCHANGED <<ledger, regions, rpfs, findreplace, mulVars, chainVars, pipeVars, sampleVars, flatVars, heapVars>>

NextCtor == CallInit

SpecCtor == InitCtor /\ [][NextCtor]_vars

(***************************************************************************)
(* Specification SpecChain: GetDataDrivenPrediction(dataMinusBkgFail) on   *)
(* an object whose regions and rpfs lists passed the constructor's length  *)
(* check, one loop iteration per step.                                     *)
(***************************************************************************)
ChainRegionLists == UNION {[1 .. n -> ChainNames] : n \in 1 .. MaxRegions}

InitChain ==
  /\ regions \in {q \in ChainRegionLists : q[1] = SRfail}
  /\ rpfs \in [1 .. Len(regions) - 1 -> RpfPool]
  /\ dataMinusBkgFail \in PipePool
  /\ dataDriven = EmptyDict
  /\ loopI = 0
  /\ chainResult = None
  /\ chainPc = "call"
  /\ ledger = <<>>
  /\ findreplace = <<>>
  /\ self = None
  /\ ctorPc = "idle"
  /\ MulIdle
  /\ PipeIdle
  /\ SampleIdle
  /\ FlatIdle
  /\ HeapIdle

\* Mutant of ChainEnter: the check of nTransfers left out.
ChainEnter_NoCheck ==
  /\ chainPc = "call"
  /\ chainPc' = "loop"
  /\ dataDriven' = EmptyDict
  /\ loopI' = 0
  /\ UNCHANGED <<chainResult, dataMinusBkgFail, ctorVars, mulVars, pipeVars, sampleVars, flatVars, heapVars>>

\* Lines 176-179: the check of nTransfers, then the empty dictionary.
ChainEnter ==
  /\ chainPc = "call"
  /\ IF Len(regions) - 1 < 1
       THEN chainResult' = Raise("EmptyChain") /\ chainPc' = "done"
       ELSE chainResult' = chainResult /\ chainPc' = "loop"
  /\ dataDriven' = EmptyDict
  /\ loopI' = 0
  /\ UNCHANGED <<dataMinusBkgFail, ctorVars, mulVars, pipeVars, sampleVars, flatVars, heapVars>>

\* Lines 180-194: one iteration of the for loop.
ChainStep ==
  /\ chainPc = "loop"
  /\ loopI <= Len(regions) - 2
  /\ LET step == ChainIter(regions, rpfs, dataDriven, dataMinusBkgFail, loopI)
     IN IF IsErr(step)
          THEN /\ chainResult' = step
               /\ chainPc' = "done"
               /\ UNCHANGED <<dataDriven, loopI>>
          ELSE /\ dataDriven' = step.val
               /\ loopI' = loopI + 1
               /\ UNCHANGED <<chainResult, chainPc>>
  /\ UNCHANGED <<dataMinusBkgFail, ctorVars, mulVars, pipeVars, sampleVars, flatVars, heapVars>>

\* Line 196: return dataDriven.
ChainReturn ==
  /\ chainPc = "loop"
  /\ loopI > Len(regions) - 2
  /\ chainResult' = Ok(dataDriven)
  /\ chainPc' = "done"
  /\ UNCHANGED <<dataMinusBkgFail, dataDriven, loopI, ctorVars, mulVars, pipeVars, sampleVars, flatVars, heapVars>>

NextChain == ChainEnter \/ ChainStep \/ ChainReturn

SpecChain == InitChain /\ [][NextChain]_vars

(***************************************************************************)
(* Specification SpecAsimov: the Asimov histogram of every region of a     *)
(* chain, region by region, as the docstrings of GetAsimov and             *)
(* GetDataDrivenPrediction prescribe: the fail region's data-driven        *)
(* prediction is its data-minus-nominalMC histogram, which also seeds the  *)
(* chain; a later region's is the chain's entry for it.                    *)
(***************************************************************************)
PipeRegionLists == {<<SRfail>>, <<SRfail, SRpass>>, <<SRfail, SRloose, SRpass>>}

InitAsimov ==
  /\ regions \in PipeRegionLists
  /\ rpfs \in [1 .. Len(regions) - 1 -> PipeRpfPool]
  /\ template_hist = TemplateOf(UnitRpf)
  /\ regionIdx = 1
  /\ data = None
  /\ nominalMC = None
  /\ asimov = None
  /\ pipePc = "bkg"
  /\ dataMinusBkgFail = None
  /\ dataDriven = EmptyDict
  /\ loopI = 0
  /\ chainResult = None
  /\ chainPc = "idle"
  /\ ledger = <<>>
  /\ findreplace = <<>>
  /\ self = None
  /\ ctorPc = "idle"
  /\ MulIdle
  /\ SampleIdle
  /\ FlatIdle
  /\ HeapIdle

\* nominalMC = self.GetBackgrounds(region), on the BKG histograms found in
\* the region's files.
CallGetBackgrounds ==
  /\ pipePc = "bkg"
  /\ \E sources \in BkgSourceLists : nominalMC' = GetBackgrounds(template_hist, sources)
  /\ pipePc' = IF regionIdx = 1 THEN "data" ELSE "asimov"
  /\ UNCHANGED <<template_hist, regionIdx, data, asimov, chainVars, ctorVars, mulVars, sampleVars, flatVars, heapVars>>

\* data = self.GetData(fail region).
CallGetData ==
  /\ pipePc = "data"
  /\ \E h \in DataPool : data' = GetData(h)
  /\ pipePc' = "dmb"
  /\ UNCHANGED <<template_hist, regionIdx, nominalMC, asimov, chainVars, ctorVars, mulVars, sampleVars, flatVars, heapVars>>

\* dataMinusBkgFail = self.GetDataMinusBackgrounds(fail region, data, nominalMC).
CallGetDataMinusBackgrounds ==
  /\ pipePc = "dmb"
  /\ dataMinusBkgFail' = GetDataMinusBackgrounds(template_hist, data, nominalMC)
  /\ pipePc' = "chain"
  /\ UNCHANGED <<template_hist, regionIdx, data, nominalMC, asimov>>
  /\ UNCHANGED <<dataDriven, loopI, chainResult, chainPc, ctorVars, mulVars, sampleVars, flatVars, heapVars>>

\* dataDriven = self.GetDataDrivenPrediction(dataMinusBkgFail).
CallGetDataDrivenPrediction ==
  /\ pipePc = "chain"
  /\ chainResult' = GetDataDrivenPrediction(regions, rpfs, dataMinusBkgFail)
  /\ pipePc' = IF IsErr(chainResult') THEN "failed" ELSE "asimov"
  /\ UNCHANGED <<template_hist, regionIdx, data, nominalMC, asimov>>
  /\ UNCHANGED <<dataMinusBkgFail, dataDriven, loopI, chainPc, ctorVars, mulVars, sampleVars, flatVars, heapVars>>

\* The dataDriven argument of GetAsimov for the region at position k (lines
\* 203-206).
DataDrivenOf(k) ==
  IF k = 1 THEN dataMinusBkgFail ELSE chainResult.val[regions[k]]

\* asimov = self.GetAsimov(region, nominalMC, dataDriven).
CallGetAsimov ==
  /\ pipePc = "asimov"
  /\ asimov' = GetAsimov(template_hist, nominalMC, DataDrivenOf(regionIdx))
  /\ pipePc' = "next"
  /\ UNCHANGED <<template_hist, regionIdx, data, nominalMC, chainVars, ctorVars, mulVars, sampleVars, flatVars, heapVars>>

\* The caller's loop moves to the next region of self.regions; the finished
\* region's nominalMC and asimov are dropped.
NextRegion ==
  /\ pipePc = "next"
  /\ regionIdx < Len(regions)
  /\ regionIdx' = regionIdx + 1
  /\ nominalMC' = None
  /\ asimov' = None
  /\ pipePc' = "bkg"
  /\ UNCHANGED <<template_hist, data, chainVars, ctorVars, mulVars, sampleVars, flatVars, heapVars>>

NextAsimov ==
  \/ CallGetBackgrounds
  \/ CallGetData
  \/ CallGetDataMinusBackgrounds
  \/ CallGetDataDrivenPrediction
  \/ CallGetAsimov
  \/ NextRegion

SpecAsimov == InitAsimov /\ [][NextAsimov]_vars

(***************************************************************************)
(* Specification SpecSample: GetPDF, GetCDF and GeneratePseudoData on the  *)
(* Asimov histogram of a region, one draw per step.                        *)
(***************************************************************************)
\* The Asimov histograms: nominal MC plus a data-driven prediction, of any
\* sign in any bin, the underflow and overflow bins empty or not; and the
\* 2x2 histograms of contents 0 and 1.
AsimovPool ==
  UNION {{MkHist(d[1], d[2], UniformAxis(d[1]), UniformAxis(d[2]), inr, fl) :
            inr \in [InRange(d[1], d[2]) -> Vals], fl \in FlowVals} :
         d \in Dims}
  \cup {MkHist(2, 2, UniformAxis(2), UniformAxis(2), inr, 0) :
          inr \in [InRange(2, 2) -> {0, 1}]}

\* The region's DATA histogram: event counts in the last in-range bin, the
\* underflow and overflow bins empty or not.
SampleDataPool(asim) ==
  {MkHist(asim.nx, asim.ny, asim.xe, asim.ye,
          [b \in InRange(asim.nx, asim.ny) |-> IF b = <<asim.nx, asim.ny>> THEN n ELSE 0], fl) :
     n \in 0 .. MaxEvents, fl \in PipeFlowVals}

InitSample ==
  /\ asimov \in AsimovPool
  /\ template_hist = TemplateOf(asimov)
  /\ data \in SampleDataPool(asimov)
  /\ nEvents = NEventsArgument(DataIntegral(data))
  /\ PDF = None
  /\ CDF = None
  /\ toy = None
  /\ drawI = 0
  /\ rand = <<0, 0>>
  /\ sampleResult = None
  /\ samplePc = "pdf"
  /\ regionIdx = 0
  /\ nominalMC = None
  /\ pipePc = "idle"
  /\ CtorIdle
  /\ rpfs = <<>>
  /\ ChainIdle
  /\ MulIdle
  /\ FlatIdle
  /\ HeapIdle

sampleFrame == <<asimov, template_hist, regionIdx, data, nominalMC, pipePc,
                 ctorVars, chainVars, mulVars, flatVars, heapVars>>

\* PDF = self.GetPDF(region, asimov).
CallGetPDF ==
  /\ samplePc = "pdf"
  /\ PDF' = GetPDF(asimov)
  /\ samplePc' = IF IsErr(PDF') THEN "failed" ELSE "cdf"
  /\ UNCHANGED <<CDF, nEvents, toy, drawI, rand, sampleResult, sampleFrame>>

\* CDF = self.GetCDF(region, PDF).
CallGetCDF ==
  /\ samplePc = "cdf"
  /\ \E errs \in RoundingChoices(PDF) : CDF' = GetCDF(PDF, errs)
  /\ samplePc' = IF IsErr(CDF') THEN "failed" ELSE "generate"
  /\ UNCHANGED <<PDF, nEvents, toy, drawI, rand, sampleResult, sampleFrame>>

\* Lines 273-275: GeneratePseudoData is entered, toy is a clone of the
\* template.
EnterGenerate ==
  /\ samplePc = "generate"
  /\ toy' = Clone(template_hist)
  /\ drawI' = 0
  /\ samplePc' = "draw"
  /\ UNCHANGED <<PDF, CDF, nEvents, rand, sampleResult, sampleFrame>>

\* Lines 276-282: one iteration of the loop over range(int(nEvents)).
Draw ==
  /\ samplePc = "draw"
  /\ drawI < nEvents
  /\ \E u \in UniformDraws(CDF) :
       /\ rand' = u
       /\ LET globalBin == FindPDFintersection(u, CDF)
          IN IF IsErr(globalBin)
               THEN /\ sampleResult' = globalBin
                    /\ samplePc' = "failed"
                    /\ UNCHANGED <<toy, drawI>>
               ELSE /\ toy' = ToyFill(toy, GlobalBinTo2D(PDF, globalBin.val))
                    /\ drawI' = drawI + 1
                    /\ UNCHANGED <<sampleResult, samplePc>>
  /\ UNCHANGED <<PDF, CDF, nEvents, sampleFrame>>

\* Line 283: return toy.
ReturnToy ==
  /\ samplePc = "draw"
  /\ drawI >= nEvents
  /\ sampleResult' = Ok(toy)
  /\ samplePc' = "done"
  /\ UNCHANGED <<PDF, CDF, nEvents, toy, drawI, rand, sampleFrame>>

NextSample == CallGetPDF \/ CallGetCDF \/ EnterGenerate \/ Draw \/ ReturnToy

SpecSample == InitSample /\ [][NextSample]_vars

(***************************************************************************)
(* Specification SpecFlatten: the two loops of GetCDF over a grid of       *)
(* gridNX x gridNY bins, one increment of cumulativeBin per step.          *)
(***************************************************************************)
InitFlatten ==
  /\ gridNX \in 1 .. MaxBins
  /\ gridNY \in 1 .. MaxBins
  /\ binI = 0
  /\ binJ = 0
  /\ cumulativeBin = 0
  /\ flatPc = "start"
  /\ CtorIdle
  /\ rpfs = <<>>
  /\ ChainIdle
  /\ MulIdle
  /\ PipeIdle
  /\ SampleIdle
  /\ HeapIdle

flatFrame == <<gridNX, gridNY, mulVars, ctorVars, chainVars, pipeVars, sampleVars, heapVars>>

\* Lines 237-241: the first iteration, i = 1, j = 1.
LoopEnter ==
  /\ flatPc = "start"
  /\ binI' = 1
  /\ binJ' = 1
  /\ cumulativeBin' = cumulativeBin + 1
  /\ flatPc' = "loop"
  /\ UNCHANGED flatFrame

\* Lines 239-241: the next j, or the next i with j = 1.
LoopNext ==
  /\ flatPc = "loop"
  /\ binJ < gridNY \/ binI < gridNX
  /\ IF binJ < gridNY
       THEN binI' = binI /\ binJ' = binJ + 1
       ELSE binI' = binI + 1 /\ binJ' = 1
  /\ cumulativeBin' = cumulativeBin + 1
  /\ UNCHANGED <<flatPc, flatFrame>>

\* Both ranges are exhausted.
LoopExit ==
  /\ flatPc = "loop"
  /\ binJ = gridNY
  /\ binI = gridNX
  /\ flatPc' = "done"
  /\ UNCHANGED <<binI, binJ, cumulativeBin, flatFrame>>

NextFlatten == LoopEnter \/ LoopNext \/ LoopExit

SpecFlatten == InitFlatten /\ [][NextFlatten]_vars

(***************************************************************************)
(* Specification SpecHeap: the methods of one PseudoData object called on  *)
(* objects in memory, for a chain of a fail and a pass region: each method *)
(* is called once its arguments exist, in any order that allows.           *)
(***************************************************************************)
NoRefs ==
  [template |-> 0, fileData |-> 0, fileBkg |-> 0, rpf |-> 0, data |-> 0, nominalMC |-> 0,
   dataMinusBkgFail |-> 0, dataDriven |-> 0, asimov |-> 0, PDF |-> 0, CDF |-> 0, toy |-> 0]

InitHeap ==
  /\ \E d \in DataPool, b \in PipePool, f \in PipeRpfPool :
       heap = <<TemplateOf(UnitRpf), d, b, f>>
  /\ refs = [NoRefs EXCEPT !.template = 1, !.fileData = 2, !.fileBkg = 3, !.rpf = 4]
  /\ heapDrawI = 0
  /\ heapPc = "run"
  /\ CtorIdle
  /\ rpfs = <<>>
  /\ ChainIdle
  /\ MulIdle
  /\ PipeIdle
  /\ SampleIdle
  /\ FlatIdle

heapFrame == <<mulVars, ctorVars, chainVars, pipeVars, sampleVars, flatVars>>

\* The call returned res: the objects in memory and the caller's name for
\* the result, or the exception.
HeapReturn(res, name) ==
  IF IsErr(res)
    THEN heapPc' = "failed" /\ UNCHANGED <<heap, refs>>
    ELSE /\ heap' = res.heap
         /\ refs' = [refs EXCEPT ![name] = res.ref]
         /\ UNCHANGED heapPc

HeapGetData ==
  /\ heapPc = "run"
  /\ refs.data = 0
  /\ HeapReturn(HGetData(heap, refs.fileData), "data")
  /\ UNCHANGED <<heapDrawI, heapFrame>>

HeapGetBackgrounds ==
  /\ heapPc = "run"
  /\ refs.nominalMC = 0
  /\ HeapReturn(HGetBackgrounds(heap, refs.template, refs.fileBkg), "nominalMC")
  /\ UNCHANGED <<heapDrawI, heapFrame>>

HeapGetDataMinusBackgrounds ==
  /\ heapPc = "run"
  /\ refs.dataMinusBkgFail = 0
  /\ refs.data # 0
  /\ refs.nominalMC # 0
  /\ HeapReturn(HGetDataMinusBackgrounds(heap, refs.template, refs.data, refs.nominalMC),
                "dataMinusBkgFail")
  /\ UNCHANGED <<heapDrawI, heapFrame>>

\* GetDataDrivenPrediction for the two regions: one call of Multiply.
HeapGetDataDrivenPrediction ==
  /\ heapPc = "run"
  /\ refs.dataDriven = 0
  /\ refs.dataMinusBkgFail # 0
  /\ HeapReturn(HMultiply(heap, refs.dataMinusBkgFail, refs.rpf), "dataDriven")
  /\ UNCHANGED <<heapDrawI, heapFrame>>

\* GetAsimov for the fail region (on the residual) or the pass region (on
\* the chain's output).
HeapGetAsimov ==
  /\ heapPc = "run"
  /\ refs.asimov = 0
  /\ refs.nominalMC # 0
  /\ \E dd \in {refs.dataMinusBkgFail, refs.dataDriven} \ {0} :
       HeapReturn(HGetAsimov(heap, refs.template, refs.nominalMC, dd), "asimov")
  /\ UNCHANGED <<heapDrawI, heapFrame>>

HeapGetPDF ==
  /\ heapPc = "run"
  /\ refs.PDF = 0
  /\ refs.asimov # 0
  /\ HeapReturn(HGetPDF(heap, refs.asimov), "PDF")
  /\ UNCHANGED <<heapDrawI, heapFrame>>

HeapGetCDF ==
  /\ heapPc = "run"
  /\ refs.CDF = 0
  /\ refs.PDF # 0
  /\ \E errs \in RoundingChoices(heap[refs.PDF]) :
       HeapReturn(HGetCDF(heap, refs.PDF, errs), "CDF")
  /\ UNCHANGED <<heapDrawI, heapFrame>>

\* GeneratePseudoData is entered: line 273.
HeapEnterGenerate ==
  /\ heapPc = "run"
  /\ refs.toy = 0
  /\ refs.CDF # 0
  /\ LET t == HNewToy(heap, refs.template)
     IN heap' = t.heap /\ refs' = [refs EXCEPT !.toy = t.ref]
  /\ heapDrawI' = 0
  /\ heapPc' = "draw"
  /\ UNCHANGED heapFrame

\* One iteration of its loop, for the data integral as nEvents.
HeapDraw ==
  /\ heapPc = "draw"
  /\ heapDrawI < NEventsArgument(DataIntegral(heap[refs.fileData]))
  /\ \E u \in UniformDraws(heap[refs.CDF]) :
       LET res == HDraw(heap, refs.toy, refs.PDF, refs.CDF, u)
       IN IF IsErr(res)
            THEN heapPc' = "failed" /\ UNCHANGED <<heap, heapDrawI>>
            ELSE heap' = res.heap /\ heapDrawI' = heapDrawI + 1 /\ UNCHANGED heapPc
  /\ UNCHANGED <<refs, heapFrame>>

\* Line 283: return toy.
HeapReturnToy ==
  /\ heapPc = "draw"
  /\ heapDrawI >= NEventsArgument(DataIntegral(heap[refs.fileData]))
  /\ heapPc' = "run"
  /\ UNCHANGED <<heap, refs, heapDrawI, heapFrame>>

NextHeap ==
  \/ HeapGetData
  \/ HeapGetBackgrounds
  \/ HeapGetDataMinusBackgrounds
  \/ HeapGetDataDrivenPrediction
  \/ HeapGetAsimov
  \/ HeapGetPDF
  \/ HeapGetCDF
  \/ HeapEnterGenerate
  \/ HeapDraw
  \/ HeapReturnToy

SpecHeap == InitHeap /\ [][NextHeap]_vars

(***************************************************************************)
(* Claims about Multiply.                                                  *)
(***************************************************************************)
\* The bin of h2 that holds the centre coordinates of bin b of h1.
LocateIn(h1, h2, b) ==
  <<FindBin(h2.xe, h2.nx, GetBinCenter(h1.xe, h1.nx, b[1])),
    FindBin(h2.ye, h2.ny, GetBinCenter(h1.ye, h1.ny, b[2]))>>

MaxOf(x, y) == IF x >= y THEN x ELSE y

MultiplyReturned == mulPc = "done" /\ ~IsErr(finalHist)

\* C3: after Multiply(a, b) on histograms of equal NX and NY, every in-range
\* bin of the result holds max(a(bin), 0) * b(bin located by the centre of
\* a's bin); b is never clamped; if every in-range bin of a is negative, every
\* in-range bin of the result is zero.
C3_MultiplyClamp ==
  MultiplyReturned =>
    /\ \A b \in InRange(mulH1.nx, mulH1.ny) :
         finalHist.c[b] = MaxOf(mulH1.c[b], 0) * mulH2.c[LocateIn(mulH1, mulH2, b)]
    /\ (\A b \in InRange(mulH1.nx, mulH1.ny) : mulH1.c[b] < 0) =>
         \A b \in InRange(mulH1.nx, mulH1.ny) : finalHist.c[b] = 0

\* C3 witness: a call that returned with one bin of a clamped, one negative
\* product from a negative b, and a coordinate lookup that lands on another
\* index than the bin's own.
C3_Witness ==
  /\ MultiplyReturned
  /\ \E b \in InRange(mulH1.nx, mulH1.ny) :
       /\ mulH1.c[b] < 0
       /\ mulH2.c[LocateIn(mulH1, mulH2, b)] # 0
       /\ finalHist.c[b] = 0
  /\ \E b \in InRange(mulH1.nx, mulH1.ny) :
       /\ mulH1.c[b] > 0
       /\ LocateIn(mulH1, mulH2, b) # b
       /\ finalHist.c[b] < 0

(***************************************************************************)
(* Claims about the transfer chain.                                        *)
(***************************************************************************)
DistinctNames(q) == \A i, j \in 1 .. Len(q) : q[i] = q[j] => i = j

SameBinning(h, g) == <<h.nx, h.ny>> = <<g.nx, g.ny>>

\* A chain of R >= 2 distinct regions whose transfer functions all have the
\* binning of the seed.
ProperChain ==
  /\ Len(regions) >= 2
  /\ DistinctNames(regions)
  /\ \A i \in 1 .. Len(rpfs) : SameBinning(dataMinusBkgFail, rpfs[i])

\* C4: for a chain of R regions and R-1 transfer functions the call returns a
\* mapping that holds, for i = 1..R-1, under the name of the i-th region
\* (the fail region being the 0-th) the histogram Multiply(previous,
\* transfers[i-1]), previous being the seed for i = 1 and the stored output
\* of region i-1 otherwise; every intermediate result is kept under its name.
C4_ChainPropagation ==
  (chainPc = "done" /\ ProperChain) =>
    /\ ~IsErr(chainResult)
    /\ DOMAIN chainResult.val = {regions[i + 1] : i \in 1 .. Len(regions) - 1}
    /\ \A i \in 1 .. Len(regions) - 1 :
         chainResult.val[regions[i + 1]] =
           Multiply(IF i = 1 THEN dataMinusBkgFail ELSE chainResult.val[regions[i]],
                    rpfs[i])

\* C4 witness: a three-region chain has returned, its two outputs differ, and
\* the last one differs from what the seed times the last transfer would give.
C4_Witness ==
  /\ chainPc = "done"
  /\ ProperChain
  /\ Len(regions) = 3
  /\ ~IsErr(chainResult)
  /\ chainResult.val[regions[2]] # chainResult.val[regions[3]]
  /\ chainResult.val[regions[3]] # Multiply(dataMinusBkgFail, rpfs[2])

ChainReturned == chainPc = "done" /\ ~IsErr(chainResult)
NonFailNames == {regions[k] : k \in 2 .. Len(regions)}

\* C16 (as claimed): the returned mapping has an entry for every non-fail
\* region and also an entry for the fail region, whose value is the
\* data-minus-background residual itself.
C16_MappingHoldsFailResidual ==
  ChainReturned =>
    /\ \A k \in 2 .. Len(regions) : regions[k] \in DOMAIN chainResult.val
    /\ regions[1] \in DOMAIN chainResult.val
    /\ chainResult.val[regions[1]] = dataMinusBkgFail

\* C16 (amended): the keys of the returned mapping are exactly the names of
\* the regions after the first; the fail region has no entry unless its
\* name is also the name of a later region.
C16_MappingHoldsNonFailOnly ==
  ChainReturned =>
    /\ DOMAIN chainResult.val = NonFailNames
    /\ regions[1] \notin NonFailNames => regions[1] \notin DOMAIN chainResult.val

\* C16 witness: a chain of three distinct regions has returned a mapping of
\* two entries, none of them the fail region's.
C16_Witness ==
  /\ ChainReturned
  /\ Len(regions) = 3
  /\ DistinctNames(regions)
  /\ DOMAIN chainResult.val = {regions[2], regions[3]}
  /\ regions[1] \notin DOMAIN chainResult.val

\* C17: a chain of a single region and no transfer function is rejected with
\* the empty-chain error, the error is raised for no other chain, and a
\* returned mapping is never empty.
C17_EmptyChainRejected ==
  chainPc = "done" =>
    /\ (Len(regions) = 1 /\ rpfs = <<>>) => chainResult = Raise("EmptyChain")
    /\ chainResult = Raise("EmptyChain") => Len(regions) = 1
    /\ ~IsErr(chainResult) => DOMAIN chainResult.val # {}

\* C17 witness: the call on a single region and an empty transfer list has
\* raised the empty-chain error.
C17_Witness ==
  /\ chainPc = "done"
  /\ Len(regions) = 1
  /\ rpfs = <<>>
  /\ Len(regions) - Len(rpfs) = 1
  /\ chainResult = Raise("EmptyChain")

(***************************************************************************)
(* Claims about the Asimov histograms.                                     *)
(***************************************************************************)
\* GetAsimov has returned for the region at position regionIdx.
AsimovBuilt == pipePc = "next"

AllBins(h) == DOMAIN h.c

\* C10 (as claimed): the fail region's Asimov is the data-minus-nominal-
\* background residual alone, the nominal MC not being added to it; every
\* other region's Asimov is its summed nominal MC plus its transfer-chain
\* prediction, bin by bin.
C10_FailAsimovIsResidual ==
  AsimovBuilt =>
    IF regionIdx = 1
      THEN \A b \in AllBins(asimov) : asimov.c[b] = dataMinusBkgFail.c[b]
      ELSE \A b \in AllBins(asimov) :
             asimov.c[b] = nominalMC.c[b] + chainResult.val[regions[regionIdx]].c[b]

\* C10 (amended): the fail region's Asimov is its summed nominal MC plus the
\* data-minus-nominal-background residual, bin by bin; every other region's
\* Asimov is its summed nominal MC plus its transfer-chain prediction, bin
\* by bin.
C10_AsimovIsMCPlusDataDriven ==
  AsimovBuilt =>
    IF regionIdx = 1
      THEN \A b \in AllBins(asimov) :
             asimov.c[b] = nominalMC.c[b] + dataMinusBkgFail.c[b]
      ELSE \A b \in AllBins(asimov) :
             asimov.c[b] = nominalMC.c[b] + chainResult.val[regions[regionIdx]].c[b]

\* C10 witness: the fail region's Asimov is built from a non-empty nominal MC
\* and differs from the residual.
C10_Witness ==
  /\ AsimovBuilt
  /\ regionIdx = 1
  /\ \E b \in InRange(nominalMC.nx, nominalMC.ny) : nominalMC.c[b] > 0
  /\ asimov # dataMinusBkgFail
  /\ asimov = data

(***************************************************************************)
(* Claims about the constructor.                                           *)
(***************************************************************************)
CtorDone == ctorPc = "done"
CtorSucceeded == ctorPc = "done" /\ ~IsErr(self)

\* C1: constructing with len(regions) - len(rpfs) # 1 always fails with the
\* chain-length-mismatch error and no other, with or without a find-replace
\* map.
C1_ChainLengthMismatch ==
  (CtorDone /\ Len(regions) - Len(rpfs) # 1) => self = Raise("ChainLengthMismatch")

\* C8: construction succeeds only if, for every region of the requested
\* list, the selected rows hold exactly one DATA row of that region.
C8_OneDataRowPerRequestedRegion ==
  CtorSucceeded => \A k \in 1 .. Len(regions) : Len(DataRows(self.df, regions[k])) = 1

\* The rows select() keeps for the requested regions.
RequestedRows == Select(ledger, SeqRange(regions))

EveryRegionInEveryRow ==
  \A i \in 1 .. Len(RequestedRows) : \A k \in 1 .. Len(regions) :
    Contains(RequestedRows[i].source_histname, regions[k])

\* C9: without a find-replace map, construction succeeds only if every
\* requested region name is a substring of the source histogram name of every
\* selected row, and otherwise fails with the region-not-found error.
C9_RegionNotFound ==
  (CtorDone /\ findreplace = <<>>) =>
    /\ ~IsErr(self) => EveryRegionInEveryRow
    /\ ~EveryRegionInEveryRow => self = Raise("RegionNotFound")

\* C15: an Add or Subtract step whose operands differ in NX or NY fails
\* with an incompatible-grid error and returns no histogram: when the data
\* histogram has another binning than the template, GetDataMinusBackgrounds
\* raises.
C15_IncompatibleGridsRejected ==
  (dataMinusBkgFail # None /\ <<data.nx, data.ny>> # <<template_hist.nx, template_hist.ny>>)
    => IsErr(dataMinusBkgFail)

\* C11: a configuration error is raised before any histogram arithmetic
\* step: when GetDataDrivenPrediction raises the empty-chain error, neither
\* GetBackgrounds nor GetDataMinusBackgrounds has produced a histogram yet.
C11_ConfigErrorsBeforeArithmetic ==
  chainResult = Raise("EmptyChain") => nominalMC = None /\ dataMinusBkgFail = None

(***************************************************************************)
(* Claims about the sampler, checked under SpecSample.                     *)
(***************************************************************************)
PdfCalled == PDF # None
CdfBuilt == "den" \in DOMAIN CDF
InRangeIntegral(h) == Integral(h, 1, h.nx, 1, h.ny)

\* The final content of a CDF minus one, times 10^7 * den; a float spacing
\* near one is about 1e-7.
FinalExcess(cdf) == (cdf.c[cdf.n] - cdf.den) * 10000000 + cdf.r[cdf.n] * cdf.den

\* C7: GetPDF raises the divide-by-zero error exactly when the integral of
\* the Asimov histogram over the in-range bins 1..NX x 1..NY is zero, and
\* otherwise returns the Asimov histogram divided, bin by bin, by that
\* in-range integral.
C7_DivideByZeroIffInRangeIntegralZero ==
  PdfCalled =>
    LET s == InRangeIntegral(asimov)
    IN /\ (PDF = Raise("ZeroDivisionError")) <=> (s = 0)
       /\ ~IsErr(PDF) =>
            /\ PDF.den = Abs(s)
            /\ \A b \in DOMAIN asimov.c : PDF.c[b] = Sgn(s) * asimov.c[b]

\* C5: the CDF that GetCDF builds from a PDF of GetPDF is non-decreasing
\* over the flattened index k = 1..NX*NY, and its final value, at
\* k = NX*NY, lies within 1e-6 of one.
C5_CdfMonotoneAndNormalised ==
  CdfBuilt =>
    /\ \A k \in 2 .. CDF.n : ~ValLess(CdfVal(CDF, k), CdfVal(CDF, k - 1))
    /\ Abs(FinalExcess(CDF)) <= 10 * CDF.den

SeqToSet(q) == {q[k] : k \in 1 .. Len(q)}

\* C19: one bin range serves every stage: for the histogram the sampler is
\* given, the bins Multiply rewrites, the bins GetPDF's normalisation
\* integral sums and the bins GetCDF accumulates are the same set.
C19_OneBinRange ==
  PdfCalled =>
    LET r == PDFIntegralBins(asimov)
    IN /\ SeqToSet(MultiplyLoopBins(asimov)) = (r[1] .. r[2]) \X (r[3] .. r[4])
       /\ SeqToSet(CDFLoopBins(asimov)) = (r[1] .. r[2]) \X (r[3] .. r[4])

\* C12: GetCDF raises the CDF-overflow error if and only if the final
\* cumulative value exceeds one by more than the tolerance 1e-6; a CDF whose
\* final value exceeds one by less is accepted and returned.
C12_CdfOverflowWithTolerance ==
  (CDF # None /\ ~IsErr(PDF)) =>
    \A errs \in RoundingChoices(PDF) :
      (GetCDF(PDF, errs) = Raise("CdfOverflow"))
        <=> (FinalExcess(CumulativeCDF(PDF, errs)) > 10 * PDF.den)

\* C6: during sampling no draw from the closed interval [0, CDF maximum]
\* on a CDF that GetCDF accepted makes _FindPDFintersection raise: the
\* no-intersection error is never what GeneratePseudoData ends with.
C6_NoIntersectionNeverRaised ==
  sampleResult # Raise("NoIntersection")

\* C2: when GeneratePseudoData returns, every in-range bin of the toy holds
\* a non-negative integer, the contents of all bins sum to exactly the
\* requested count nEvents, and for nEvents = 0 every bin is zero.
C2_SamplingConservation ==
  samplePc = "done" =>
    LET t == sampleResult.val
    IN /\ \A b \in InRange(t.nx, t.ny) : t.c[b] \in Nat
       /\ SumOver(t.c, DOMAIN t.c) = nEvents
       /\ nEvents = 0 => \A b \in DOMAIN t.c : t.c[b] = 0

\* C2 witness: a toy of MaxEvents events is returned with two different
\* in-range bins filled, one of them more than once.
C2_Witness ==
  /\ samplePc = "done"
  /\ nEvents = MaxEvents
  /\ \E b1, b2 \in InRange(toy.nx, toy.ny) :
       b1 # b2 /\ sampleResult.val.c[b1] > 1 /\ sampleResult.val.c[b2] > 0

(***************************************************************************)
(* Claims about the flattened index, checked under SpecFlatten.            *)
(***************************************************************************)
\* C13: for every grid size and every bin (i, j) of it, the flattened index
\* that GetCDF's loops give the bin is (i-1)*NY + j, and _GlobalBinTo2D
\* converts it back to exactly (i, j).
C13_FlattenRoundTrip ==
  flatPc = "loop" =>
    /\ cumulativeBin = (binI - 1) * gridNY + binJ
    /\ cumulativeBin = CumulativeBin(gridNY, binI, binJ)
    /\ GlobalBinTo2D([nx |-> gridNX, ny |-> gridNY], cumulativeBin) = <<binI, binJ>>

\* C13 witness: a bin off the first row and column of a grid that is not
\* square.
C13_Witness ==
  /\ flatPc = "loop"
  /\ gridNX # gridNY
  /\ binI > 1
  /\ binJ > 1
  /\ GlobalBinTo2D([nx |-> gridNX, ny |-> gridNY], cumulativeBin) = <<binI, binJ>>

(***************************************************************************)
(* Claims about the number of toy events, checked under SpecSample.        *)
(***************************************************************************)
\* C14: the toy returned for a region holds as many events as the integral
\* of the region's DATA histogram, whatever the Asimov histogram (nominal
\* backgrounds plus transfer-function prediction) it was sampled from.
C14_ToyCountIsDataIntegral ==
  samplePc = "done" =>
    /\ SumOver(sampleResult.val.c, DOMAIN sampleResult.val.c) = InRangeIntegral(data)
    /\ drawI = InRangeIntegral(data)

\* C14 witness: a toy is returned whose count is the data integral and
\* differs both from the Asimov integral and from the data integral with
\* the overflow bins.
C14_Witness ==
  /\ samplePc = "done"
  /\ SumOver(sampleResult.val.c, DOMAIN sampleResult.val.c) = InRangeIntegral(data)
  /\ InRangeIntegral(data) > 1
  /\ InRangeIntegral(asimov) # InRangeIntegral(data)
  /\ DataIntegral_WithOverflow(asimov) # InRangeIntegral(data)
  /\ DataIntegral_WithOverflow(data) # InRangeIntegral(data)

(***************************************************************************)
(* Claims about a single draw, checked under SpecSample.                   *)
(***************************************************************************)
\* The flattened indices whose CDF content is above the draw u.
IndicesAbove(u) ==
  {k \in 1 .. CDF.n : 2 * CDF.c[k] > u[1] \/ (2 * CDF.c[k] = u[1] /\ CDF.r[k] > u[2])}

SmallestOf(S) == CHOOSE k \in S : \A m \in S : k <= m

\* C18: a draw u that fills the toy selects the smallest flattened index k
\* whose CDF content is above u, converts it to
\* (i, j) = (floor((k-1)/NY)+1, (k-1) mod NY + 1), adds exactly one to the
\* toy's bin (i, j) and leaves every other bin of the toy as it was.
C18_SingleDraw ==
  [][(samplePc = "draw" /\ drawI' = drawI + 1) =>
       LET k == SmallestOf(IndicesAbove(rand'))
           i == ((k - 1) \div PDF.ny) + 1
           j == ((k - 1) % PDF.ny) + 1
       IN /\ IndicesAbove(rand') # {}
          /\ toy'.c[<<i, j>>] = toy.c[<<i, j>>] + 1
          /\ \A b \in DOMAIN toy.c : b # <<i, j>> => toy'.c[b] = toy.c[b]
          /\ DOMAIN toy'.c = DOMAIN toy.c]_vars

\* C18 witness: on a 2x2 grid the first draw lies above the first two CDF
\* contents and below the last two, and has filled bin (2, 1).
C18_Witness ==
  /\ samplePc = "draw"
  /\ drawI = 1
  /\ toy.nx = 2
  /\ toy.ny = 2
  /\ IndicesAbove(rand) = {3, 4}
  /\ toy.c[<<2, 1>>] = 1
  /\ \A b \in DOMAIN toy.c : b # <<2, 1>> => toy.c[b] = 0

(***************************************************************************)
(* Claims about the objects in memory, checked under SpecHeap.             *)
(***************************************************************************)
AllZero(h) == \A b \in DOMAIN h.c : h.c[b] = 0

\* The object a step may write to although it existed before the step: the
\* toy that GeneratePseudoData has cloned and is still filling.
ToyBeingFilled(id) == heapPc = "draw" /\ id = refs.toy

\* C20: no call changes an object that existed before it, be it the shared
\* template, an argument or an earlier result: a step only adds objects
\* and fills the one it created, and the template stays all-zero.
C20_OnlyFreshClonesWritten ==
  [][/\ Len(heap') >= Len(heap)
     /\ \A id \in 1 .. Len(heap) : ~ToyBeingFilled(id) => heap'[id] = heap[id]
     /\ refs'.template = refs.template
     /\ AllZero(heap'[refs'.template])]_vars

\* C20 witness: every method has returned, the toy holds two events or
\* more, the backgrounds, the residual and the PDF are not empty, and the
\* template is still all-zero.
C20_Witness ==
  /\ heapPc = "run"
  /\ \A name \in DOMAIN refs : refs[name] # 0
  /\ heapDrawI >= 2
  /\ ~AllZero(heap[refs.toy])
  /\ ~AllZero(heap[refs.nominalMC])
  /\ ~AllZero(heap[refs.dataMinusBkgFail])
  /\ heap[refs.PDF].den > 1
  /\ AllZero(heap[refs.template])

(***************************************************************************)
(* Claims about the bins a toy is filled in, checked under SpecSample.     *)
(***************************************************************************)
\* C21: whatever the signs of the PDF's bins, a bin whose PDF content is
\* zero or negative holds no toy event after any number of draws: every bin
\* that GeneratePseudoData increments has a strictly positive PDF content.
C21_OnlyPositiveBinsFilled ==
  samplePc \in {"draw", "done"} =>
    \A b \in DOMAIN toy.c : PDF.c[b] <= 0 => toy.c[b] = 0

\* C21 witness: two draws or more have filled a toy from a PDF that has a
\* negative bin in range, which is still empty while another bin holds two
\* events or more.
C21_Witness ==
  /\ samplePc = "draw"
  /\ drawI >= 2
  /\ \E b \in InRange(toy.nx, toy.ny) : PDF.c[b] < 0 /\ toy.c[b] = 0
  /\ \E b \in InRange(toy.nx, toy.ny) : toy.c[b] >= 2

(***************************************************************************)
(* Claims about region lists with repeated names, checked under SpecChain. *)
(***************************************************************************)
\* The output of the region at list position k (the fail region being at
\* position 0), each transfer applied to the output of the position before.
RECURSIVE PositionalOutput(_)
PositionalOutput(k) ==
  IF k = 0 THEN dataMinusBkgFail
  ELSE LET prev == PositionalOutput(k - 1)
       IN IF IsErr(prev) THEN prev ELSE Multiply(prev, rpfs[k])

\* C22: for every region list, repeated names included, the step at loop
\* index i >= 1 finds the previous region by name where it is by position,
\* raises no missing-key error and takes as its input the output of the
\* region at the list position before.
C22_PreviousByPosition ==
  (chainPc = "loop" /\ loopI >= 1 /\ loopI <= Len(regions) - 2) =>
    LET input == TransferInput(regions, dataDriven, dataMinusBkgFail, loopI)
    IN /\ IndexOf(regions, regions[loopI + 2]) - 1 = loopI
       /\ ~IsErr(input)
       /\ input.val = PositionalOutput(loopI)

=============================================================================
